---- MODULE Spec2Model ----
(***************************************************************************)
(* Inductive enumerators of dougct/etudes (src/induction):                 *)
(*   generate_binary_numbers.py, generate_n_digit_numbers.py,              *)
(*   generate_permutations.py.                                             *)
(* Every generator is a pure function.  It is an operator here, computed   *)
(* as the Python computes it; a call is one step of the state machine that *)
(* stores the arguments and the returned list.                             *)
(* Python strings are sequences of one-character strings, Python lists are *)
(* sequences, Python ints are integers (no width).                         *)
(***************************************************************************)
EXTENDS Integers, Sequences, FiniteSets

VARIABLES op, n, k, word, ch, pos, result, raised

vars == <<op, n, k, word, ch, pos, result, raised>>

(* ------------------------------ bounds --------------------------------- *)
\* largest n passed to generate_binary_nums
MaxN == 5
\* largest digit count passed to the n-digit generators
MaxDigits == 3
\* digit sums k range over 0 .. 9 * MaxDigits + ExtraK
ExtraK == 2
\* longest word passed to interpolate and generate_permutations
MaxWordLen == 4

Symbols == {"a", "b", "c", "d", "e"}

Words == UNION {[1..L -> Symbols] : L \in 0..MaxWordLen}

Sums == 0..(9 * MaxDigits + ExtraK)

(* --------------------------- Python helpers ---------------------------- *)
Min(a, b) == IF a <= b THEN a ELSE b

\* s[lo:hi] for 0 <= lo, 0 <= hi (indices past the end are clamped)
Slice(s, lo, hi) == SubSeq(s, Min(lo, Len(s)) + 1, Min(hi, Len(s)))

\* [x for xs in lists for x in xs]: the inner lists, one after the other
RECURSIVE FlattenFrom(_, _)
FlattenFrom(lists, i) ==
    IF i > Len(lists) THEN <<>> ELSE lists[i] \o FlattenFrom(lists, i + 1)

Flatten(lists) == FlattenFrom(lists, 1)

\* 10 ** e for e >= 0
RECURSIVE Pow(_, _)
Pow(b, e) == IF e = 0 THEN 1 ELSE b * Pow(b, e - 1)

\* list(range(a, b))
Range(a, b) == [i \in 1..(b - a) |-> a + i - 1]

(* ---------------------- generate_binary_numbers.py --------------------- *)
Suffixes == <<"0", "1">>

\* the induction step read as the docstring words it: S0 followed by S1
RECURSIVE generate_binary_nums_S0_then_S1(_)
generate_binary_nums_S0_then_S1(m) ==
    IF m = 0 THEN << <<>> >>
    ELSE LET binary_nums == generate_binary_nums_S0_then_S1(m - 1)
         IN [i \in 1..Len(binary_nums) |-> binary_nums[i] \o <<"0">>]
            \o [i \in 1..Len(binary_nums) |-> binary_nums[i] \o <<"1">>]

\* the suffix list written in the wrong order
RECURSIVE generate_binary_nums_one_first(_)
generate_binary_nums_one_first(m) ==
    IF m = 0 THEN << <<>> >>
    ELSE LET binary_nums == generate_binary_nums_one_first(m - 1)
         IN Flatten([i \in 1..Len(binary_nums) |->
                [j \in 1..2 |-> binary_nums[i] \o <<Suffixes[3 - j]>>]])

\* the suffix list holding "0" twice
RECURSIVE generate_binary_nums_zero_twice(_)
generate_binary_nums_zero_twice(m) ==
    IF m = 0 THEN << <<>> >>
    ELSE LET binary_nums == generate_binary_nums_zero_twice(m - 1)
         IN Flatten([i \in 1..Len(binary_nums) |->
                [j \in 1..2 |-> binary_nums[i] \o <<"0">>]])

RECURSIVE generate_binary_nums(_)
generate_binary_nums(m) ==
    IF m = 0 THEN << <<>> >>
    ELSE LET binary_nums == generate_binary_nums(m - 1)
         IN Flatten([i \in 1..Len(binary_nums) |->
                [j \in 1..Len(Suffixes) |-> binary_nums[i] \o <<Suffixes[j]>>]])

(* ----------------------- generate_n_digit_numbers.py ------------------- *)
\* range(1, 10) with the upper end one short
RECURSIVE generate_n_digit_numbers_no_zeros_recursive_to_eight(_)
generate_n_digit_numbers_no_zeros_recursive_to_eight(m) ==
    IF m = 0 THEN <<>>
    ELSE IF m = 1 THEN <<1, 2, 3, 4, 5, 6, 7, 8, 9>>
    ELSE LET prev_numbers == generate_n_digit_numbers_no_zeros_recursive_to_eight(m - 1)
             base_num == Pow(10, m - 1)
         IN Flatten([digit \in 1..8 |->
                [j \in 1..Len(prev_numbers) |-> digit * base_num + prev_numbers[j]]])

RECURSIVE generate_n_digit_numbers_no_zeros_recursive(_)
generate_n_digit_numbers_no_zeros_recursive(m) ==
    IF m = 0 THEN <<>>
    ELSE IF m = 1 THEN <<1, 2, 3, 4, 5, 6, 7, 8, 9>>
    ELSE LET prev_numbers == generate_n_digit_numbers_no_zeros_recursive(m - 1)
             base_num == Pow(10, m - 1)
         IN Flatten([digit \in 1..9 |->
                [j \in 1..Len(prev_numbers) |-> digit * base_num + prev_numbers[j]]])

\* the while loop of filter_numbers_by_digit_sum, from (digit_sum, n) on
RECURSIVE digit_sum_loop(_, _)
digit_sum_loop(digit_sum, m) ==
    IF m > 0 THEN digit_sum_loop(digit_sum + (m % 10), m \div 10) ELSE digit_sum

\* the while loop stopping one digit early (while n > 9)
RECURSIVE digit_sum_loop_early(_, _)
digit_sum_loop_early(digit_sum, m) ==
    IF m > 9 THEN digit_sum_loop_early(digit_sum + (m % 10), m \div 10) ELSE digit_sum

filter_numbers_by_digit_sum_early(numbers, kk) ==
    SelectSeq(numbers, LAMBDA num : digit_sum_loop_early(0, num) = kk)

filter_numbers_by_digit_sum(numbers, kk) ==
    SelectSeq(numbers, LAMBDA num : digit_sum_loop(0, num) = kk)

generate_n_digit_numbers_summing_to_k(m, kk) ==
    filter_numbers_by_digit_sum(generate_n_digit_numbers_no_zeros_recursive(m), kk)

\* defined for m >= 1 (10 ** -1 is a float and range() rejects it)
generate_n_digit_numbers_no_zeros(m) == Range(Pow(10, m - 1), Pow(10, m))

generate_n_digit_numbers_summing_to_k_simple(m, kk) ==
    filter_numbers_by_digit_sum(generate_n_digit_numbers_no_zeros(m), kk)

(* ------------------------ generate_permutations.py --------------------- *)
\* range(len(word)): the insertion after the last character is missing
interpolate_no_end(c, w) ==
    [i \in 1..Len(w) |-> Slice(w, 0, i - 1) \o <<c>> \o Slice(w, i - 1, Len(w))]

interpolate(c, w) ==
    [i \in 1..(Len(w) + 1) |-> Slice(w, 0, i - 1) \o <<c>> \o Slice(w, i - 1, Len(w))]

\* a call either returns a list or raises
Returns(value) == [raised |-> "none", value |-> value]

Raises(exc) == [raised |-> exc, value |-> <<>>]

\* drops the entries that are equal to an earlier one
RECURSIVE Dedup(_)
Dedup(s) ==
    IF s = <<>> THEN <<>>
    ELSE LET front == Dedup(SubSeq(s, 1, Len(s) - 1))
             last == s[Len(s)]
         IN IF \E i \in 1..Len(front) : front[i] = last THEN front
            ELSE Append(front, last)

\* ch read at word[pos - 1]
RECURSIVE generate_permutations_wrong_ch(_, _)
generate_permutations_wrong_ch(w, p) ==
    IF p = 0 THEN Returns(<<w>>)
    ELSE LET curr_word == Slice(w, 0, p) \o Slice(w, p + 1, Len(w))
             perms == generate_permutations_wrong_ch(curr_word, p - 1)
         IN IF perms.raised # "none" THEN perms
            ELSE IF p >= Len(w) THEN Raises("IndexError")
            ELSE Returns(Flatten([i \in 1..Len(perms.value) |->
                                    interpolate(w[p], perms.value[i])]))

\* the result with duplicates removed
RECURSIVE generate_permutations_dedup(_, _)
generate_permutations_dedup(w, p) ==
    IF p = 0 THEN Returns(<<w>>)
    ELSE LET curr_word == Slice(w, 0, p) \o Slice(w, p + 1, Len(w))
             perms == generate_permutations_dedup(curr_word, p - 1)
         IN IF perms.raised # "none" THEN perms
            ELSE IF p >= Len(w) THEN Raises("IndexError")
            ELSE Returns(Dedup(Flatten([i \in 1..Len(perms.value) |->
                                    interpolate(w[p + 1], perms.value[i])])))

\* word[pos] raises IndexError when pos >= len(word); it is evaluated after
\* the recursive call, whose exception propagates first
RECURSIVE generate_permutations(_, _)
generate_permutations(w, p) ==
    IF p = 0 THEN Returns(<<w>>)
    ELSE LET curr_word == Slice(w, 0, p) \o Slice(w, p + 1, Len(w))
             perms == generate_permutations(curr_word, p - 1)
         IN IF perms.raised # "none" THEN perms
            ELSE IF p >= Len(w) THEN Raises("IndexError")
            ELSE Returns(Flatten([i \in 1..Len(perms.value) |->
                                    interpolate(w[p + 1], perms.value[i])]))

(* ----------------------------- the calls ------------------------------- *)
Init ==
    /\ op = "idle"
    /\ n = 0
    /\ k = 0
    /\ word = <<>>
    /\ ch = "a"
    /\ pos = 0
    /\ result = <<>>
    /\ raised = "none"

Call_generate_binary_nums ==
    /\ op = "idle"
    /\ \E m \in 0..MaxN :
        /\ n' = m
        /\ result' = generate_binary_nums(m)
    /\ op' = "generate_binary_nums"
    /\ UNCHANGED <<k, word, ch, pos, raised>>

Call_generate_n_digit_numbers_no_zeros_recursive ==
    /\ op = "idle"
    /\ \E m \in 0..MaxDigits :
        /\ n' = m
        /\ result' = generate_n_digit_numbers_no_zeros_recursive(m)
    /\ op' = "generate_n_digit_numbers_no_zeros_recursive"
    /\ UNCHANGED <<k, word, ch, pos, raised>>

Call_generate_n_digit_numbers_summing_to_k ==
    /\ op = "idle"
    /\ \E m \in 0..MaxDigits, kk \in Sums :
        /\ n' = m
        /\ k' = kk
        /\ result' = generate_n_digit_numbers_summing_to_k(m, kk)
    /\ op' = "generate_n_digit_numbers_summing_to_k"
    /\ UNCHANGED <<word, ch, pos, raised>>

Call_generate_n_digit_numbers_no_zeros ==
    /\ op = "idle"
    /\ \E m \in 1..MaxDigits :
        /\ n' = m
        /\ result' = generate_n_digit_numbers_no_zeros(m)
    /\ op' = "generate_n_digit_numbers_no_zeros"
    /\ UNCHANGED <<k, word, ch, pos, raised>>

Call_generate_n_digit_numbers_summing_to_k_simple ==
    /\ op = "idle"
    /\ \E m \in 1..MaxDigits, kk \in Sums :
        /\ n' = m
        /\ k' = kk
        /\ result' = generate_n_digit_numbers_summing_to_k_simple(m, kk)
    /\ op' = "generate_n_digit_numbers_summing_to_k_simple"
    /\ UNCHANGED <<word, ch, pos, raised>>

Call_interpolate ==
    /\ op = "idle"
    /\ \E c \in Symbols, w \in Words :
        /\ ch' = c
        /\ word' = w
        /\ result' = interpolate(c, w)
    /\ op' = "interpolate"
    /\ UNCHANGED <<n, k, pos, raised>>

Call_generate_permutations ==
    /\ op = "idle"
    /\ \E w \in Words, p \in 0..MaxWordLen :
        LET r == generate_permutations(w, p)
        IN /\ word' = w
           /\ pos' = p
           /\ result' = r.value
           /\ raised' = r.raised
    /\ op' = "generate_permutations"
    /\ UNCHANGED <<n, k, ch>>

\* the caller drops the returned list
Return ==
    /\ op # "idle"
    /\ op' = "idle"
    /\ n' = 0
    /\ k' = 0
    /\ word' = <<>>
    /\ ch' = "a"
    /\ pos' = 0
    /\ result' = <<>>
    /\ raised' = "none"

Next ==
    \/ Call_generate_binary_nums
    \/ Call_generate_n_digit_numbers_no_zeros_recursive
    \/ Call_generate_n_digit_numbers_summing_to_k
    \/ Call_generate_n_digit_numbers_no_zeros
    \/ Call_generate_n_digit_numbers_summing_to_k_simple
    \/ Call_interpolate
    \/ Call_generate_permutations
    \/ Return

Spec == Init /\ [][Next]_vars

(* ------------------------- property vocabulary ------------------------- *)
RECURSIVE Fact(_)
Fact(m) == IF m = 0 THEN 1 ELSE m * Fact(m - 1)

Elems(s) == {s[i] : i \in 1..Len(s)}

NoDuplicates(s) == \A i, j \in 1..Len(s) : i # j => s[i] # s[j]

StrictlyIncreasing(s) == \A i \in 1..(Len(s) - 1) : s[i] < s[i + 1]

\* the decimal digit of x at position i (1 = units)
DigitAt(x, i) == (x \div Pow(10, i - 1)) % 10

\* x has exactly m decimal digits, every one of them in 1..9
IsNoZeroNumber(x, m) ==
    /\ Pow(10, m - 1) <= x
    /\ x < Pow(10, m)
    /\ \A i \in 1..m : DigitAt(x, i) \in 1..9

RECURSIVE SumDigits(_, _)
SumDigits(x, m) == IF m = 0 THEN 0 ELSE DigitAt(x, m) + SumDigits(x, m - 1)

NoZeroNumbers(m) ==
    IF m = 0 THEN {} ELSE {x \in Pow(10, m - 1)..(Pow(10, m) - 1) : IsNoZeroNumber(x, m)}

\* the number written with m copies of digit d
RECURSIVE Repdigit(_, _)
Repdigit(d, m) == IF m = 0 THEN 0 ELSE 10 * Repdigit(d, m - 1) + d

\* the m-character binary representation of v, leading zeros kept
BinaryOf(v, m) ==
    [i \in 1..m |-> IF (v \div Pow(2, m - i)) % 2 = 0 THEN "0" ELSE "1"]

\* "0" < "1" in the strings' character order
BitLess(a, b) == a = "0" /\ b = "1"

\* lexicographic order on strings of equal length
LexLess(s, t) ==
    \E i \in 1..Len(s) :
        /\ \A j \in 1..(i - 1) : s[j] = t[j]
        /\ BitLess(s[i], t[i])

\* how many times symbol c occurs in w
Count(c, w) == Cardinality({i \in 1..Len(w) : w[i] = c})

SameSymbols(v, w) == \A c \in Symbols : Count(c, v) = Count(c, w)

\* every ordering of the symbols of w
Orderings(w) ==
    {[i \in 1..Len(w) |-> w[f[i]]] :
        f \in {g \in [1..Len(w) -> 1..Len(w)] : \A a, b \in 1..Len(w) : a # b => g[a] # g[b]}}

\* s with the element at 0-based index i deleted
DeleteAt(s, i) == [j \in 1..(Len(s) - 1) |-> IF j <= i THEN s[j] ELSE s[j + 1]]

C3_NoZerosExactAndIncreasing ==
    op = "generate_n_digit_numbers_no_zeros_recursive" =>
        /\ n = 0 => result = <<>>
        /\ n >= 1 =>
            /\ StrictlyIncreasing(result)
            /\ Elems(result) = NoZeroNumbers(n)
            /\ Len(result) = Pow(9, n)
            /\ result[1] = Repdigit(1, n)
            /\ result[Len(result)] = Repdigit(9, n)

C3_Witness ==
    /\ op = "generate_n_digit_numbers_no_zeros_recursive"
    /\ n = 3
    /\ Len(result) = 729
    /\ result[1] = 111
    /\ result[729] = 999

\* C4: generate_n_digit_numbers_summing_to_k(n, k) returns, ascending and
\* without duplicates, exactly the n-digit numbers with all digits in 1..9
\* whose digit sum is k; it is empty for n = 0, for k = 0 and for k > 9n.
C4_SummingToKExact ==
    op = "generate_n_digit_numbers_summing_to_k" =>
        /\ StrictlyIncreasing(result)
        /\ NoDuplicates(result)
        /\ Elems(result) = {x \in NoZeroNumbers(n) : SumDigits(x, n) = k}
        /\ (n = 0 \/ k = 0 \/ k > 9 * n) => result = <<>>

C4_Witness ==
    /\ op = "generate_n_digit_numbers_summing_to_k"
    /\ n = 2
    /\ k = 9
    /\ result = <<18, 27, 36, 45, 54, 63, 72, 81>>

\* C5: for a non-empty word of L pairwise distinct symbols,
\* generate_permutations(word, L-1) returns L! sequences, no two equal, whose
\* set is the set of all orderings of the word's symbols.
C5_PermutationsOfDistinct ==
    (/\ op = "generate_permutations"
     /\ Len(word) >= 1
     /\ pos = Len(word) - 1
     /\ NoDuplicates(word)) =>
        /\ raised = "none"
        /\ Len(result) = Fact(Len(word))
        /\ NoDuplicates(result)
        /\ Elems(result) = Orderings(word)

C5_Witness ==
    /\ op = "generate_permutations"
    /\ word = <<"a", "b", "c", "d">>
    /\ pos = 3
    /\ Len(result) = 24
    /\ <<"d", "c", "b", "a">> \in Elems(result)

\* C6: for every non-empty word of length L, repeated symbols included,
\* generate_permutations(word, L-1) returns L! entries counted with
\* multiplicity, each of length L with the multiset of symbols of word.
C6_PermutationsWithMultiplicity ==
    (/\ op = "generate_permutations"
     /\ Len(word) >= 1
     /\ pos = Len(word) - 1) =>
        /\ raised = "none"
        /\ Len(result) = Fact(Len(word))
        /\ \A i \in 1..Len(result) :
            /\ Len(result[i]) = Len(word)
            /\ SameSymbols(result[i], word)

C6_Witness ==
    /\ op = "generate_permutations"
    /\ word = <<"a", "a">>
    /\ pos = 1
    /\ result = << <<"a", "a">>, <<"a", "a">> >>

\* C7: interpolate(ch, w) returns len(w)+1 words; the one at index i has
\* length len(w)+1, has ch at index i, and deleting index i gives back w.
C7_InterpolatePositions ==
    op = "interpolate" =>
        /\ Len(result) = Len(word) + 1
        /\ \A i \in 0..Len(word) :
            /\ Len(result[i + 1]) = Len(word) + 1
            /\ result[i + 1][i + 1] = ch
            /\ DeleteAt(result[i + 1], i) = word

C7_Witness ==
    /\ op = "interpolate"
    /\ ch = "d"
    /\ word = <<"a", "b">>
    /\ result = << <<"d", "a", "b">>, <<"a", "d", "b">>, <<"a", "b", "d">> >>

\* C8: generate_permutations(word, pos) with pos >= 0 and pos # len(word)-1
\* either fails or returns exactly len(word)! entries.
C8_InconsistentPosNeverWrongLength ==
    (/\ op = "generate_permutations"
     /\ pos # Len(word) - 1) =>
        \/ raised # "none"
        \/ Len(result) = Fact(Len(word))

C10_SimpleEquivalentToRecursive ==
    /\ op = "generate_n_digit_numbers_summing_to_k_simple" =>
        result = generate_n_digit_numbers_summing_to_k(n, k)
    /\ op = "generate_n_digit_numbers_no_zeros" =>
        \A i \in 1..Len(result) : IsNoZeroNumber(result[i], n)

====
